---- MODULE Spec2Model ----
(***************************************************************************)
(* Model of rank_code/deepspeed_rank_choice_v11_noe.py: the MAP@k metric,  *)
(* the option construction of qWenSFTDataset.create_example, the batch     *)
(* collator, the last-token position read by the training step and the     *)
(* evaluator, the evaluator's gather/deduplicate/score tail, save_model,   *)
(* the ranking of lines 571-578 under ties, the training loop of one       *)
(* worker and of several workers meeting at the collectives, and           *)
(* get_optimizer_grouped_parameters.  Each part has its own specification  *)
(* over the shared variables; pc names the part and its position.          *)
(***************************************************************************)
EXTENDS Integers, Sequences, FiniteSets, TLC

VARIABLES pc,          \* position of the part under study
          mk_in,       \* mapk: [actual, predicted, k]
          mk_out,      \* mapk: the returned score (a rational), or "none"
          ex_data,     \* create_example: the dataset row
          ex_is_test,  \* create_example: self.is_test
          ex_out,      \* create_example: what the call produced, or "none"
          bt_is_test,  \* batch: the dataset is the evaluation set
          bt_instances,\* batch: the instances __getitem__ returned so far
          bt_batch,    \* batch: what collate_fn returned, or "none"
          bt_pos,      \* batch: the positions at which logits are read
          ev_world,    \* evaluator: dist.get_world_size()
          ev_dataset,  \* evaluator: the evaluation set, rows [data_id, label]
          ev_order,    \* evaluator: the sampler's order of the row indices
          ev_pc,       \* evaluator: the position of every worker
          ev_local,    \* evaluator: all_outputs/all_labels/all_data_ids of a worker
          ev_gathered, \* evaluator: the gather lists of a worker
          ev_df,       \* evaluator: the deduplicated frame of a worker
          ev_ret,      \* evaluator: what evaluation_dist returned to a worker
          sv_args,     \* save_model: args.output_dir and args.global_rank
          sv_model,    \* save_model: the model's state dict, name -> value
          sv_sub_fold, \* save_model: the sub_fold argument
          sv_files,    \* save_model: the files on disk, path -> content
          rk_in,       \* ranking: the gather lists handed to lines 571-578
          rk_out,      \* ranking: the frame built from them
          tr_args,     \* training: args and len(train_dataloader)
          tr_loss_of,  \* training: the loss of every step, by global step
          tr_epoch,    \* training: epoch
          tr_step,     \* training: step, the index of the batch in the epoch
          tr_global_step,      \* training: global_step
          tr_total_loss,       \* training: total_loss
          tr_best_val_loss,    \* training: best_val_loss
          tr_no_improve_epoch, \* training: no_improve_epoch
          tr_events,   \* training: the lines logged, evaluations run and
                       \* save_model calls made so far, in order
          tr_files,    \* training: the files on disk
          ds_args,     \* workers: args, the same on every worker but for the rank
          ds_world,    \* workers: dist.get_world_size()
          ds_dataset,  \* workers: the evaluation set, rows [data_id, label]
          ds_order,    \* workers: the eval sampler's order of the row indices
          ds_sort,     \* workers: which of two level entries np.argsort puts first
          ds_w,        \* workers: the loop's variables and position, by rank
          ds_board,    \* workers: the collectives entered so far, in order,
                       \* each with what every rank handed in
          ds_files,    \* workers: the files on disk
          ds_writers,  \* workers: which rank wrote which path
          gp_in,       \* parameter groups: named_parameters, weight_decay, lora_lr
          gp_out       \* parameter groups: the list returned

mkVars == <<mk_in, mk_out>>
exVars == <<ex_data, ex_is_test, ex_out>>
btVars == <<bt_is_test, bt_instances, bt_batch, bt_pos>>
evVars == <<ev_world, ev_dataset, ev_order, ev_pc, ev_local, ev_gathered,
            ev_df, ev_ret>>
svVars == <<sv_args, sv_model, sv_sub_fold, sv_files>>
rkVars == <<rk_in, rk_out>>
oldVars == <<mkVars, exVars, btVars, evVars, svVars>>
trVars == <<tr_args, tr_loss_of, tr_epoch, tr_step, tr_global_step,
            tr_total_loss, tr_best_val_loss, tr_no_improve_epoch, tr_events,
            tr_files>>
dsVars == <<ds_args, ds_world, ds_dataset, ds_order, ds_sort, ds_w, ds_board,
            ds_files, ds_writers>>
gpVars == <<gp_in, gp_out>>
newVars == <<rkVars, trVars, dsVars, gpVars>>
vars == <<pc, oldVars, newVars>>

\* what the actions of one part leave alone
notMk == <<exVars, btVars, evVars, svVars, newVars>>
notEx == <<mkVars, btVars, evVars, svVars, newVars>>
notBt == <<mkVars, exVars, evVars, svVars, newVars>>
notEv == <<mkVars, exVars, btVars, svVars, newVars>>
notSv == <<mkVars, exVars, btVars, evVars, newVars>>
notRk == <<oldVars, trVars, dsVars, gpVars>>
notTr == <<oldVars, rkVars, dsVars, gpVars>>
notDs == <<oldVars, rkVars, trVars, gpVars>>
notGp == <<oldVars, rkVars, trVars, dsVars>>

mkIdle == mk_in = "none" /\ mk_out = "none"
exIdle == ex_data = "none" /\ ex_is_test = FALSE /\ ex_out = "none"
btIdle ==
    /\ bt_is_test = FALSE
    /\ bt_instances = <<>>
    /\ bt_batch = "none"
    /\ bt_pos = "none"
svIdle ==
    /\ sv_args = "none"
    /\ sv_model = <<>>
    /\ sv_sub_fold = "none"
    /\ sv_files = <<>>
rkIdle == rk_in = <<>> /\ rk_out = <<>>
trIdle ==
    /\ tr_args = "none"
    /\ tr_loss_of = <<>>
    /\ tr_epoch = 0
    /\ tr_step = 0
    /\ tr_global_step = 0
    /\ tr_total_loss = 0
    /\ tr_best_val_loss = <<0, 1>>
    /\ tr_no_improve_epoch = 0
    /\ tr_events = <<>>
    /\ tr_files = <<>>
dsIdle ==
    /\ ds_args = "none"
    /\ ds_world = 0
    /\ ds_dataset = <<>>
    /\ ds_order = <<>>
    /\ ds_sort = "none"
    /\ ds_w = <<>>
    /\ ds_board = <<>>
    /\ ds_files = <<>>
    /\ ds_writers = {}
gpIdle == gp_in = "none" /\ gp_out = <<>>
newIdle == rkIdle /\ trIdle /\ dsIdle /\ gpIdle
evIdle ==
    /\ ev_world = 0
    /\ ev_dataset = <<>>
    /\ ev_order = <<>>
    /\ ev_pc = <<>>
    /\ ev_local = <<>>
    /\ ev_gathered = <<>>
    /\ ev_df = <<>>
    /\ ev_ret = <<>>

None == "none"

Min(a, b) == IF a < b THEN a ELSE b
Max(a, b) == IF a > b THEN a ELSE b

SeqToSet(s) == {s[i] : i \in 1..Len(s)}

\* s[:n] of Python, n >= 0
Take(s, n) == SubSeq(s, 1, Min(n, Len(s)))

(***************************************************************************)
(* Exact rationals <<n, d>>, d > 0, kept in lowest terms.  The program     *)
(* computes the same quotients in double precision.                        *)
(***************************************************************************)
RECURSIVE GCD(_, _)
GCD(a, b) == IF b = 0 THEN a ELSE GCD(b, a % b)

Abs(a) == IF a < 0 THEN -a ELSE a

RNorm(q) ==
    LET g == GCD(Abs(q[1]), q[2])
    IN  IF q[1] = 0 THEN <<0, 1>> ELSE <<q[1] \div g, q[2] \div g>>

RZero == <<0, 1>>
ROne == <<1, 1>>
RAdd(p, q) == RNorm(<<p[1] * q[2] + q[1] * p[2], p[2] * q[2]>>)
RDivInt(p, n) == RNorm(<<p[1], p[2] * n>>)
RNeg(p) == <<-p[1], p[2]>>
RLess(p, q) == p[1] * q[2] < q[1] * p[2]
RLeq(p, q) == p[1] * q[2] <= q[1] * p[2]

(***************************************************************************)
(* apk / mapk                                                              *)
(***************************************************************************)
\* the loop of apk over enumerate(predicted); i is the 0-based index
RECURSIVE apk_loop(_, _, _, _, _)
apk_loop(actual, predicted, i, score, num_hits) ==
    IF i >= Len(predicted) THEN score
    ELSE LET p == predicted[i + 1]
             hit == /\ p \in SeqToSet(actual)
                    /\ p \notin SeqToSet(Take(predicted, i))
         IN  IF hit
             THEN apk_loop(actual, predicted, i + 1,
                           RAdd(score, <<num_hits + 1, i + 1>>), num_hits + 1)
             ELSE apk_loop(actual, predicted, i + 1, score, num_hits)

\* a slip that forgets the cut of the ranking to its first k entries
apk_nocut(actual, predicted, k) ==
    IF actual = <<>> THEN RZero
    ELSE RDivInt(apk_loop(actual, predicted, 0, RZero, 0),
                 Min(Len(actual), k))

apk(actual, predicted, k) ==
    IF actual = <<>> THEN RZero
    ELSE LET cut == IF Len(predicted) > k THEN Take(predicted, k)
                    ELSE predicted
         IN  RDivInt(apk_loop(actual, cut, 0, RZero, 0),
                     Min(Len(actual), k))

RECURSIVE RSum(_)
RSum(qs) == IF qs = <<>> THEN RZero ELSE RAdd(Head(qs), RSum(Tail(qs)))

\* np.mean of a non-empty list
np_mean(qs) == RDivInt(RSum(qs), Len(qs))

\* zip(actual, predicted) stops at the shorter list
mapk(actual, predicted, k) ==
    np_mean([i \in 1..Min(Len(actual), Len(predicted)) |->
                 apk(actual[i], predicted[i], k)])

(***************************************************************************)
(* Inputs of the metric                                                    *)
(***************************************************************************)
MaxLabel == 2       \* rankings range over the option indices 0..MaxLabel-1
MaxExamples == 2    \* length of the list of examples
SmallK == 2         \* cutoffs 1..SmallK, besides the default
DefaultK == 25
Sentinel == 999

OptionIds == 0..(MaxLabel - 1)

\* every sequence over S without repeated entries
RECURSIVE InjSeqs(_)
InjSeqs(S) ==
    {<<>>} \cup UNION {{<<x>> \o t : t \in InjSeqs(S \ {x})} : x \in S}

Rankings == InjSeqs(OptionIds)
Labels == OptionIds \cup {Sentinel}
Cutoffs == (1..SmallK) \cup {DefaultK}

mapkInit ==
    /\ pc = "mapk_call"
    /\ \E n \in 1..MaxExamples :
         \E ls \in [1..n -> Labels], ps \in [1..n -> Rankings], k \in Cutoffs :
           mk_in = [actual |-> [i \in 1..n |-> <<ls[i]>>],
                    predicted |-> ps, k |-> k]
    /\ mk_out = None
    /\ exIdle /\ btIdle /\ evIdle /\ svIdle /\ newIdle

\* the call mapk(actual, predicted, k)
CallMapk ==
    /\ pc = "mapk_call"
    /\ mk_out' = mapk(mk_in.actual, mk_in.predicted, mk_in.k)
    /\ pc' = "mapk_done"
    /\ UNCHANGED <<mk_in, notMk>>

SpecMapk == mapkInit /\ [][CallMapk]_vars

\* 1-based position of x in s, 0 when absent
PositionOf(x, s) ==
    IF x \in SeqToSet(s) THEN CHOOSE r \in 1..Len(s) : s[r] = x ELSE 0

\* 1/r when the label stands at position r <= k, else 0
ReciprocalRank(label, ranking, k) ==
    LET r == PositionOf(label, ranking)
    IN  IF r >= 1 /\ r <= k THEN <<1, r>> ELSE RZero

ClosedFormMAP(labels, rankings, k) ==
    np_mean([i \in 1..Len(labels) |->
                 ReciprocalRank(labels[i][1], rankings[i], k)])

\* C1: with one true label per example and rankings without repeats, mapk
\* returns the mean over the examples of 1/r, r the 1-based position of the
\* true label when r <= k, and 0 when the label is not among the first k
\* entries (the sentinel 999 never is).
C1_MapkClosedForm ==
    pc = "mapk_done" =>
        mk_out = ClosedFormMAP(mk_in.actual, mk_in.predicted, mk_in.k)

\* two examples under the cutoff 1: a hit at position 1 and a label that the
\* cutoff leaves out, so the mean is 1/2
C1_Witness ==
    /\ pc = "mapk_done"
    /\ Len(mk_in.actual) = 2
    /\ mk_in.k = 1
    /\ PositionOf(mk_in.actual[1][1], mk_in.predicted[1]) = 1
    /\ PositionOf(mk_in.actual[2][1], mk_in.predicted[2]) = 2
    /\ mk_out = <<1, 2>>

(***************************************************************************)
(* qWenSFTDataset.create_example                                           *)
(***************************************************************************)
num == 25           \* options presented
RecallCut == 50     \* data['or_recall_texts'][:50]

\* string.ascii_lowercase.upper() + string.ascii_lowercase.upper().lower()
label_name ==
    <<"A", "B", "C", "D", "E", "F", "G", "H", "I", "J", "K", "L", "M",
      "N", "O", "P", "Q", "R", "S", "T", "U", "V", "W", "X", "Y", "Z",
      "a", "b", "c", "d", "e", "f", "g", "h", "i", "j", "k", "l", "m",
      "n", "o", "p", "q", "r", "s", "t", "u", "v", "w", "x", "y", "z">>

\* Texts are sequences of words; the tokenizer gives every word of its
\* vocabulary one id, and the end-of-sequence string its own id.
eos_token == "<|endoftext|>"
Header == "\nCandidate distractor Analyses:"
Suffix == "###Answer###:The option with the correct distractor Analyse is"

Vocabulary ==
    label_name \o <<".", "\n", Header, Suffix, "<end>", "question", "true",
                    "wrong", "other", eos_token>>

\* the id of every word: its 0-based place in the vocabulary
token_id == [w \in SeqToSet(Vocabulary) |-> PositionOf(w, Vocabulary) - 1]

\* tokenizer(text)['input_ids']
tokenizer(text) == [i \in 1..Len(text) |-> token_id[text[i]]]

eos_token_id == token_id[eos_token]

\* a slip that leaves the text as it is
replace_nothing(text, old, new) == text

\* text.replace(old, new)
replace(text, old, new) ==
    [i \in 1..Len(text) |-> IF text[i] = old THEN new ELSE text[i]]

\* [text for text in recall_texts_or if text != real_answer_text]
without(texts, real) == SelectSeq(texts, LAMBDA t : t # real)

RemoveOne(s, x) ==
    LET i == PositionOf(x, s)
    IN  SubSeq(s, 1, i - 1) \o SubSeq(s, i + 1, Len(s))

Count(s, x) == Cardinality({i \in 1..Len(s) : s[i] = x})

InsertAt(s, i, x) == SubSeq(s, 1, i - 1) \o <<x>> \o SubSeq(s, i, Len(s))

\* random.shuffle: every rearrangement of the list is a possible outcome.
\* The rearrangements of s are those of s less one entry x with x put back
\* at any place; x is taken among the rarest entries to build few duplicates.
RECURSIVE shuffle(_)
shuffle(s) ==
    IF Cardinality(SeqToSet(s)) <= 1 THEN {s}
    ELSE LET x == CHOOSE v \in SeqToSet(s) :
                      \A w \in SeqToSet(s) : Count(s, v) <= Count(s, w)
         IN  {InsertAt(t, i, x) :
                 t \in shuffle(RemoveOne(s, x)), i \in 1..Len(s)}

\* the loop over enumerate(input_texts): the last index whose text is the
\* true answer, 999 when there is none
label_of(input_texts, real) ==
    LET hits == {i \in 1..Len(input_texts) : input_texts[i] = real}
    IN  IF hits = {} THEN Sentinel
        ELSE (CHOOSE i \in hits : \A j \in hits : j <= i) - 1

RECURSIVE label_str_of(_, _)
label_str_of(input_texts, idx) ==
    IF idx >= Len(input_texts) THEN <<>>
    ELSE <<label_name[idx + 1], ".", input_texts[idx + 1], "\n">>
             \o label_str_of(input_texts, idx + 1)

\* a slip that keeps num distractors instead of num - 1
train_input_texts_keep_num(recall_texts_or, real) ==
    UNION {shuffle(Append(kept, real)) :
             kept \in {Take(r, num) : r \in shuffle(without(recall_texts_or, real))}}

\* a slip that leaves the true answer out of the options
train_input_texts_no_answer(recall_texts_or, real) ==
    UNION {shuffle(kept) :
             kept \in {Take(r, num - 1) : r \in shuffle(without(recall_texts_or, real))}}

\* a slip that leaves the true answer among the candidates
train_input_texts_unfiltered(recall_texts_or, real) ==
    UNION {shuffle(Append(kept, real)) :
             kept \in {Take(r, num - 1) : r \in shuffle(recall_texts_or)}}

\* the options presented in training: the candidates other than the true
\* answer, shuffled, the first num - 1 of them, the true answer, shuffled
train_input_texts(recall_texts_or, real) ==
    UNION {shuffle(Append(kept, real)) :
             kept \in {Take(r, num - 1) : r \in shuffle(without(recall_texts_or, real))}}

\* a slip that shuffles the options in evaluation as well
test_input_texts_shuffled(recall_texts_or) == shuffle(Take(recall_texts_or, num))

\* the options presented in evaluation
test_input_texts(recall_texts_or) == {Take(recall_texts_or, num)}

\* lines 302-315 for one choice of input_texts
finish_example(data, is_test, input_texts) ==
    LET label == label_of(input_texts, data.answer_text)
        text == data.prompt \o <<Header>> \o label_str_of(input_texts, 0)
                    \o <<Suffix>>
        input_ids == Append(tokenizer(replace(text, eos_token, "<end>")),
                            eos_token_id)
    IN  IF ~is_test /\ label = Sentinel
        THEN [raised |-> "AssertionError", input_texts |-> input_texts]
        ELSE [raised |-> None, input_texts |-> input_texts,
              input_ids |-> input_ids, label |-> label,
              data_id |-> data.data_id]

\* every outcome of create_example(data)
create_example(data, is_test) ==
    LET recall_texts_or == Take(data.or_recall_texts, RecallCut)
        options == IF ~is_test
                   THEN train_input_texts(recall_texts_or, data.answer_text)
                   ELSE test_input_texts(recall_texts_or)
    IN  {finish_example(data, is_test, t) : t \in options}

(***************************************************************************)
(* Rows given to create_example: candidate lists of the lengths around 0,  *)
(* num and RecallCut, made of one plain distractor text, with the true     *)
(* answer at up to MaxCopies of the places AnswerSlots and one other       *)
(* distractor text at one of the places MarkSlots.                         *)
(***************************************************************************)
SmallLen == 2       \* candidate lists of 0..SmallLen texts
Overshoot == 2      \* candidate lists of up to RecallCut + Overshoot texts
MaxCopies == 2      \* copies of the true answer among the candidates

Lengths == (0..SmallLen) \cup ((num - 2)..(num + 1))
               \cup ((RecallCut - 1)..(RecallCut + Overshoot))
AnswerSlots == {1, num, RecallCut, RecallCut + 1}
MarkSlots == {0, 1, RecallCut + 1}

RecallLists ==
    {[i \in 1..n |-> IF i \in A THEN "true"
                     ELSE IF i = e THEN "other" ELSE "wrong"] :
        n \in Lengths,
        A \in {B \in SUBSET AnswerSlots : Cardinality(B) <= MaxCopies},
        e \in MarkSlots}

Prompts == {<<"question">>, <<"question", eos_token, "question">>}

Rows ==
    {[prompt |-> p, answer_text |-> "true", or_recall_texts |-> r,
      data_id |-> Len(r)] : p \in Prompts, r \in RecallLists}

exampleInit ==
    /\ pc = "example_call"
    /\ ex_data \in Rows
    /\ ex_is_test \in BOOLEAN
    /\ ex_out = None
    /\ mkIdle /\ btIdle /\ evIdle /\ svIdle /\ newIdle

\* dataset.create_example(data), called by __getitem__
CreateExample ==
    /\ pc = "example_call"
    /\ ex_out' \in create_example(ex_data, ex_is_test)
    /\ pc' = "example_done"
    /\ UNCHANGED <<ex_data, ex_is_test, notEx>>

SpecExample == exampleInit /\ [][CreateExample]_vars

\* the candidates of the row other than the true answer, among the first 50
distractors_of(data) ==
    SelectSeq(SubSeq(data.or_recall_texts, 1,
                     Min(RecallCut, Len(data.or_recall_texts))),
              LAMBDA t : t # data.answer_text)

Trained == pc = "example_done" /\ ~ex_is_test
Tested == pc = "example_done" /\ ex_is_test

\* C2 as stated: training always presents exactly 25 options.
C2_Original ==
    Trained /\ ex_out.raised = None => Len(ex_out.input_texts) = num

\* C2 amended: training presents min(24, m) + 1 options, m the number of
\* candidates among the first 50 that differ from the true answer; that is 25
\* options exactly when m >= 24.
C2_OptionCount ==
    Trained =>
        /\ ex_out.raised = None
        /\ Len(ex_out.input_texts)
             = Min(num - 1, Len(distractors_of(ex_data))) + 1
        /\ (Len(ex_out.input_texts) = num
              <=> Len(distractors_of(ex_data)) >= num - 1)

\* a row with 24 candidates, one of them the true answer: 23 distractors are
\* left and 24 options are presented
C2_Witness ==
    /\ Trained
    /\ Len(ex_data.or_recall_texts) = num - 1
    /\ Count(ex_data.or_recall_texts, ex_data.answer_text) = 1
    /\ Len(ex_out.input_texts) = num - 1

\* C3: in training, whatever the two shuffles give, the assertion
\* label != 999 holds, the label is an index of the presented options and the
\* option at that index is the true answer.
C3_TrainLabelFound ==
    Trained =>
        /\ ex_out.raised = None
        /\ ex_out.label # Sentinel
        /\ ex_out.label \in 0..(Len(ex_out.input_texts) - 1)
        /\ ex_out.input_texts[ex_out.label + 1] = ex_data.answer_text

\* a full option set whose true answer the second shuffle left neither first
\* nor last
C3_Witness ==
    /\ Trained
    /\ ex_out.raised = None
    /\ Len(ex_out.input_texts) = num
    /\ ex_out.label = 7
    /\ ex_out.input_texts[1] = "other"

\* C4: in training the true answer is presented exactly once, at the index
\* label and nowhere else; every other option differs from it and is one of
\* the first 50 candidates (no more often than it occurs there), however many
\* copies of the true answer the candidates hold.
C4_AnswerOnce ==
    Trained /\ ex_out.raised = None =>
        /\ Count(ex_out.input_texts, ex_data.answer_text) = 1
        /\ \A i \in 1..Len(ex_out.input_texts) :
             (ex_out.input_texts[i] = ex_data.answer_text) <=> (i = ex_out.label + 1)
        /\ \A i \in 1..Len(ex_out.input_texts) :
             i # ex_out.label + 1 =>
                /\ ex_out.input_texts[i] # ex_data.answer_text
                /\ Count(ex_out.input_texts, ex_out.input_texts[i])
                     <= Count(distractors_of(ex_data), ex_out.input_texts[i])

\* the candidates hold the true answer twice among the first 50, and a full
\* option set is presented
C4_Witness ==
    /\ Trained
    /\ ex_out.raised = None
    /\ Count(SubSeq(ex_data.or_recall_texts, 1,
                    Min(RecallCut, Len(ex_data.or_recall_texts))),
             ex_data.answer_text) = 2
    /\ Len(ex_out.input_texts) = num
    /\ "other" \in SeqToSet(ex_out.input_texts)

\* C5: in evaluation the first min(25, n) candidates are presented as they
\* stand; the call never fails; the label is 999 when the true answer is not
\* among them, and otherwise an index at which the option is the true answer.
C5_TestVerbatim ==
    Tested =>
        LET n == Len(ex_data.or_recall_texts)
            shown == ex_out.input_texts
        IN  /\ ex_out.raised = None
            /\ Len(shown) = Min(num, n)
            /\ \A i \in 1..Len(shown) : shown[i] = ex_data.or_recall_texts[i]
            /\ IF \E i \in 1..Len(shown) : shown[i] = ex_data.answer_text
               THEN /\ ex_out.label \in 0..(Len(shown) - 1)
                    /\ shown[ex_out.label + 1] = ex_data.answer_text
               ELSE ex_out.label = Sentinel

\* more than 25 candidates, the true answer only behind the 25th: the label
\* is the sentinel and the call returns
C5_Witness ==
    /\ Tested
    /\ Len(ex_data.or_recall_texts) >= RecallCut
    /\ ex_data.or_recall_texts[RecallCut] = ex_data.answer_text
    /\ ex_data.or_recall_texts[1] = "other"
    /\ Count(ex_out.input_texts, ex_data.answer_text) = 0
    /\ ex_out.raised = None
    /\ ex_out.label = Sentinel

(***************************************************************************)
(* collate_fn and the position at which the training step and the          *)
(* evaluator read the logits of each row                                   *)
(***************************************************************************)
RECURSIVE MaxOf(_)
MaxOf(ns) ==
    IF Len(ns) = 1 THEN ns[1] ELSE Max(Head(ns), MaxOf(Tail(ns)))

\* a slip that fills with 0, the default of val
padding_zero(inputs, val) ==
    LET max_len == MaxOf([i \in 1..Len(inputs) |-> Len(inputs[i])])
    IN  [i \in 1..Len(inputs) |->
            [j \in 1..max_len |->
                IF j <= Len(inputs[i]) THEN inputs[i][j] ELSE 0]]

\* padding(inputs, val): a batch_size x max_len matrix of val, the start of
\* row i overwritten with inputs[i]
padding(inputs, val) ==
    LET max_len == MaxOf([i \in 1..Len(inputs) |-> Len(inputs[i])])
    IN  [i \in 1..Len(inputs) |->
            [j \in 1..max_len |->
                IF j <= Len(inputs[i]) THEN inputs[i][j] ELSE val]]

collate_fn(instances) ==
    [input_ids |-> padding([i \in 1..Len(instances) |-> instances[i].input_ids],
                           eos_token_id),
     labels |-> [i \in 1..Len(instances) |-> instances[i].label],
     data_ids |-> [i \in 1..Len(instances) |-> instances[i].data_id]]

\* tokenizer.pad_token_id = tokenizer.eos_token_id
pad_token_id == eos_token_id

\* torch.argmax of a row of 0/1: the 0-based index of the first maximum
argmax(row) ==
    LET m == MaxOf(row)
    IN  (CHOOSE i \in 1..Len(row) :
            row[i] = m /\ \A j \in 1..(i - 1) : row[j] # m) - 1

\* (torch.eq(input_ids, pad_token_id).int().argmax(-1) - 1) % input_ids.shape[-1]
sequence_lengths(input_ids) ==
    [b \in 1..Len(input_ids) |->
        (argmax([j \in 1..Len(input_ids[b]) |->
                     IF input_ids[b][j] = pad_token_id THEN 1 ELSE 0]) - 1)
            % Len(input_ids[b])]

MaxBatch == 3       \* instances per batch

\* the rows of the datasets batches are drawn from
BatchRecallLists == {<<>>, <<"wrong">>, <<"true", "wrong">>}

BatchRows ==
    {[prompt |-> p, answer_text |-> "true", or_recall_texts |-> r,
      data_id |-> 10 * Len(p) + Len(r)] :
        p \in Prompts, r \in BatchRecallLists}

batchInit ==
    /\ pc = "batch_fetch"
    /\ bt_is_test \in BOOLEAN
    /\ bt_instances = <<>>
    /\ bt_batch = None
    /\ bt_pos = None
    /\ mkIdle /\ exIdle /\ evIdle /\ svIdle /\ newIdle

\* the data loader fetches one more instance of the batch: __getitem__
GetItem ==
    /\ pc = "batch_fetch"
    /\ Len(bt_instances) < MaxBatch
    /\ \E data \in BatchRows :
         \E inst \in create_example(data, bt_is_test) :
            /\ inst.raised = None
            /\ bt_instances' = Append(bt_instances, inst)
    /\ UNCHANGED <<pc, bt_is_test, bt_batch, bt_pos, notBt>>

\* the data loader hands the fetched instances to collate_fn
Collate ==
    /\ pc = "batch_fetch"
    /\ bt_instances # <<>>
    /\ bt_batch' = collate_fn(bt_instances)
    /\ pc' = "batch_collated"
    /\ UNCHANGED <<bt_is_test, bt_instances, bt_pos, notBt>>

\* the training step up to the row of logits it reads (lines 651-661)
TrainStep ==
    /\ pc = "batch_collated"
    /\ ~bt_is_test
    /\ bt_pos' = sequence_lengths(bt_batch.input_ids)
    /\ pc' = "batch_read"
    /\ UNCHANGED <<bt_is_test, bt_instances, bt_batch, notBt>>

\* the evaluator's step up to the row of logits it reads (lines 537-547)
EvalStep ==
    /\ pc = "batch_collated"
    /\ bt_is_test
    /\ bt_pos' = sequence_lengths(bt_batch.input_ids)
    /\ pc' = "batch_read"
    /\ UNCHANGED <<bt_is_test, bt_instances, bt_batch, notBt>>

SpecBatch ==
    batchInit /\ [][GetItem \/ Collate \/ TrainStep \/ EvalStep]_vars

\* C9: the token matrix is as wide as the longest instance; row i starts with
\* instance i's tokens and holds the end-of-sequence id from there on; labels
\* and identifiers are those of the instances, in the same order.
C9_CollatePads ==
    pc \in {"batch_collated", "batch_read"} =>
        LET n == Len(bt_instances)
            ids == bt_batch.input_ids
        IN  /\ Len(ids) = n
            /\ Len(bt_batch.labels) = n
            /\ Len(bt_batch.data_ids) = n
            /\ \E i \in 1..n : Len(ids[1]) = Len(bt_instances[i].input_ids)
            /\ \A i \in 1..n :
                 /\ Len(ids[i]) = Len(ids[1])
                 /\ Len(bt_instances[i].input_ids) <= Len(ids[i])
                 /\ \A j \in 1..Len(ids[i]) :
                      ids[i][j] = IF j <= Len(bt_instances[i].input_ids)
                                  THEN bt_instances[i].input_ids[j]
                                  ELSE eos_token_id
                 /\ bt_batch.labels[i] = bt_instances[i].label
                 /\ bt_batch.data_ids[i] = bt_instances[i].data_id

\* three instances of three lengths, the shortest first, with different
\* labels and identifiers
C9_Witness ==
    /\ pc = "batch_collated"
    /\ Len(bt_instances) = 3
    /\ Len(bt_instances[1].input_ids) < Len(bt_instances[2].input_ids)
    /\ Len(bt_instances[3].input_ids) < Len(bt_instances[1].input_ids)
    /\ bt_instances[1].label # bt_instances[2].label
    /\ bt_instances[1].data_id # bt_instances[2].data_id

\* 0-based index of the first end-of-sequence id of a row, -1 without any
FirstEos(row) ==
    IF \E j \in 1..Len(row) : row[j] = eos_token_id
    THEN (CHOOSE j \in 1..Len(row) :
             row[j] = eos_token_id /\ \A h \in 1..(j - 1) : row[h] # eos_token_id) - 1
    ELSE -1

\* C10: in the training step and in the evaluator, the position read for
\* every row of a padded batch is the index just before the row's first
\* end-of-sequence id, which is the index of the last prompt token of the
\* instance, just before the end-of-sequence id create_example appended; so
\* too for the longest row, which has no padding.
C10_LastRealToken ==
    pc = "batch_read" =>
        \A i \in 1..Len(bt_instances) :
            LET row == bt_batch.input_ids[i]
                own == bt_instances[i].input_ids
            IN  /\ FirstEos(row) >= 1
                /\ bt_pos[i] = FirstEos(row) - 1
                /\ bt_pos[i] = Len(own) - 2
                /\ row[bt_pos[i] + 1] = token_id[Suffix]
                /\ own[Len(own)] = eos_token_id

\* evaluator, a padded row whose prompt held the end-of-sequence string, next
\* to a longest row without padding
C10_Witness ==
    /\ pc = "batch_read"
    /\ bt_is_test
    /\ Len(bt_instances) = 2
    /\ Len(bt_instances[1].input_ids) < Len(bt_instances[2].input_ids)
    /\ token_id["<end>"] \in SeqToSet(bt_instances[1].input_ids)
    /\ bt_pos[1] < bt_pos[2]
    /\ bt_pos[2] = Len(bt_batch.input_ids[2]) - 2

(***************************************************************************)
(* evaluation_dist: every worker runs the model over its shard of the      *)
(* evaluation set, the workers gather each other's results, and every      *)
(* worker ranks, deduplicates and scores the gathered records.             *)
(***************************************************************************)
MaxEvalRows == 3    \* rows of the evaluation set
MaxWorld == 2       \* workers

NumLetters == 25    \* label_index[:25]

\* labels create_example gives evaluation rows
EvalLabels == {0, Sentinel}

\* rows of 25 letter logits the model may give: rising and falling
LogitRows ==
    {[i \in 1..NumLetters |-> i], [i \in 1..NumLetters |-> NumLetters - i]}

\* the orders DistributedSampler may draw for n rows (0-based row indices)
SamplerOrders(n) == {[i \in 1..n |-> i - 1], [i \in 1..n |-> n - i]}

CeilDiv(a, b) == (a + b - 1) \div b

\* DistributedSampler.__iter__: the order, padded to a multiple of the world
\* size by repeating it from its start, every world-th index from rank on
shard_of(order, world, rank) ==
    LET n == Len(order)
        num_samples == CeilDiv(n, world)
    IN  [j \in 1..num_samples |-> order[((rank + (j - 1) * world) % n) + 1]]

RECURSIVE cat(_)
\* torch.cat of a list of tensors along the first axis
cat(ts) == IF ts = <<>> THEN <<>> ELSE Head(ts) \o cat(Tail(ts))

\* the orders of the first k indices (0-based) along which v does not fall:
\* index k - 1 goes into an order of the indices before it, behind every
\* smaller entry and before every larger one
RECURSIVE argsort_upto(_, _)
argsort_upto(v, k) ==
    IF k = 0 THEN {<<>>}
    ELSE {InsertAt(t, p + 1, k - 1) :
            t \in argsort_upto(v, k - 1),
            p \in Cardinality({x \in 1..(k - 1) : v[x] < v[k]})
                  ..Cardinality({x \in 1..(k - 1) : v[x] <= v[k]})}

\* np.argsort(v): the 0-based indices in an order along which v does not
\* fall; entries that tie may come in either order
argsort(v) == argsort_upto(v, Len(v))

\* every list that takes its i-th entry from the i-th set
RECURSIVE choices(_)
choices(sets) ==
    IF sets = <<>> THEN {<<>>}
    ELSE {<<x>> \o t : x \in Head(sets), t \in choices(Tail(sets))}

\* a slip that sorts the logits themselves, lowest first
negated_not(v) == v

negated(v) == [i \in 1..Len(v) |-> -v[i]]

\* a slip that keeps the last record of every identifier
drop_duplicates_keep_last(df) ==
    LET keep == {i \in 1..Len(df) :
                    \A j \in (i + 1)..Len(df) : df[j].data_id # df[i].data_id}
        F[i \in 0..Len(df)] ==
            IF i = 0 THEN <<>>
            ELSE IF i \in keep THEN Append(F[i - 1], df[i]) ELSE F[i - 1]
    IN  F[Len(df)]

\* df.drop_duplicates('data_id'): the rows whose data_id no earlier row has
drop_duplicates(df) ==
    LET keep == {i \in 1..Len(df) :
                    \A j \in 1..(i - 1) : df[j].data_id # df[i].data_id}
        F[i \in 0..Len(df)] ==
            IF i = 0 THEN <<>>
            ELSE IF i \in keep THEN Append(F[i - 1], df[i]) ELSE F[i - 1]
    IN  F[Len(df)]

\* a slip that returns the score itself
score_frame_not_negated(df) ==
    mapk([i \in 1..Len(df) |-> <<df[i].label>>],
         [i \in 1..Len(df) |-> df[i].predict], DefaultK)

\* lines 585-588: -mapk(labels, predictions) of a deduplicated frame
score_frame(df) ==
    RNeg(mapk([i \in 1..Len(df) |-> <<df[i].label>>],
              [i \in 1..Len(df) |-> df[i].predict], DefaultK))

\* lines 571-578: the frames a worker may build from its gather lists
frames_of(gathered) ==
    LET records == cat(gathered)
    IN  {[i \in 1..Len(records) |->
             [data_id |-> records[i].data_id, predict |-> ps[i],
              label |-> records[i].label]] :
           ps \in choices([i \in 1..Len(records) |->
                              argsort(negated(records[i].logits))])}

Ranks == 0..(ev_world - 1)

evalInit ==
    /\ pc = "eval"
    /\ ev_world \in 1..MaxWorld
    /\ \E n \in 1..MaxEvalRows :
         /\ \E ls \in [1..n -> EvalLabels] :
              ev_dataset = [i \in 1..n |-> [data_id |-> i, label |-> ls[i]]]
         /\ ev_order \in SamplerOrders(n)
    /\ ev_pc = [r \in Ranks |-> "loop"]
    /\ ev_local = [r \in Ranks |-> <<>>]
    /\ ev_gathered = [r \in Ranks |-> <<>>]
    /\ ev_df = [r \in Ranks |-> <<>>]
    /\ ev_ret = [r \in Ranks |-> None]
    /\ mkIdle /\ exIdle /\ btIdle /\ svIdle /\ newIdle

\* lines 527-561 on worker r: the model's letter logits, the label and the
\* identifier of every row of the worker's shard, in the shard's order
EvalLoop(r) ==
    /\ pc = "eval"
    /\ ev_pc[r] = "loop"
    /\ LET shard == shard_of(ev_order, ev_world, r)
       IN  \E logits \in [1..Len(shard) -> LogitRows] :
              ev_local' = [ev_local EXCEPT ![r] =
                  [j \in 1..Len(shard) |->
                      [data_id |-> ev_dataset[shard[j] + 1].data_id,
                       label |-> ev_dataset[shard[j] + 1].label,
                       logits |-> logits[j]]]]
    /\ ev_pc' = [ev_pc EXCEPT ![r] = "gather"]
    /\ UNCHANGED <<pc, ev_world, ev_dataset, ev_order, ev_gathered, ev_df,
                   ev_ret, notEv>>

\* lines 563-569: the three all_gather calls, which return on every worker
\* once all workers have entered them, with the tensors in rank order
AllGather ==
    /\ pc = "eval"
    /\ \A r \in Ranks : ev_pc[r] = "gather"
    /\ ev_gathered' = [r \in Ranks |-> [q \in 1..ev_world |-> ev_local[q - 1]]]
    /\ ev_pc' = [r \in Ranks |-> "tail"]
    /\ UNCHANGED <<pc, ev_world, ev_dataset, ev_order, ev_local, ev_df,
                   ev_ret, notEv>>

\* lines 571-588 on worker r
EvalTail(r) ==
    /\ pc = "eval"
    /\ ev_pc[r] = "tail"
    /\ \E frame \in frames_of(ev_gathered[r]) :
         LET df == drop_duplicates(frame)
         IN  /\ ev_df' = [ev_df EXCEPT ![r] = df]
             /\ ev_ret' = [ev_ret EXCEPT ![r] = score_frame(df)]
    /\ ev_pc' = [ev_pc EXCEPT ![r] = "done"]
    /\ UNCHANGED <<pc, ev_world, ev_dataset, ev_order, ev_local, ev_gathered,
                   notEv>>

SpecEval ==
    evalInit /\ [][\/ \E r \in Ranks : EvalLoop(r)
                   \/ AllGather
                   \/ \E r \in Ranks : EvalTail(r)]_vars

\* the records of all workers in gather order: worker 0's, then worker 1's, ...
RECURSIVE GatherOrder(_)
GatherOrder(q) ==
    IF q >= ev_world THEN <<>> ELSE ev_local[q] \o GatherOrder(q + 1)

\* predict lists the 25 options by descending logit
RanksByLogit(predict, logits) ==
    /\ Len(predict) = NumLetters
    /\ SeqToSet(predict) = 0..(NumLetters - 1)
    /\ \A a, b \in 1..NumLetters :
         a < b => logits[predict[a] + 1] >= logits[predict[b] + 1]

\* C6: the frame a worker scores holds exactly one record per identifier
\* among the gathered records, and it is the first record with that
\* identifier in gather order (its label, and the ranking of its logits).
C6_FirstOccurrenceKept ==
    pc = "eval" =>
        \A r \in Ranks :
            ev_pc[r] = "done" =>
                LET all == GatherOrder(0)
                    df == ev_df[r]
                IN  /\ \A a, b \in 1..Len(df) :
                         a # b => df[a].data_id # df[b].data_id
                    /\ {df[a].data_id : a \in 1..Len(df)}
                         = {all[i].data_id : i \in 1..Len(all)}
                    /\ \A a \in 1..Len(df) :
                         LET f == CHOOSE i \in 1..Len(all) :
                                    /\ all[i].data_id = df[a].data_id
                                    /\ \A j \in 1..(i - 1) :
                                         all[j].data_id # df[a].data_id
                         IN  /\ df[a].label = all[f].label
                             /\ RanksByLogit(df[a].predict, all[f].logits)

\* two workers, three rows: the sampler pads the last shard with a row the
\* first worker also has, the model scores the two copies differently, and
\* worker 1 has scored its frame
C6_Witness ==
    /\ pc = "eval"
    /\ ev_world = 2
    /\ Len(ev_dataset) = 3
    /\ ev_pc[1] = "done"
    /\ Len(ev_df[1]) = 3
    /\ \E i \in 1..Len(ev_local[0]), j \in 1..Len(ev_local[1]) :
         /\ ev_local[0][i].data_id = ev_local[1][j].data_id
         /\ ev_local[0][i].logits # ev_local[1][j].logits

\* MAP@25 of a frame by the closed form
Quality(df) ==
    ClosedFormMAP([i \in 1..Len(df) |-> <<df[i].label>>],
                  [i \in 1..Len(df) |-> df[i].predict], DefaultK)

\* the frames with the identifiers and labels of df and any of the two
\* rankings of the options, first to last and last to first, in every row
OtherFrames(df) ==
    {[i \in 1..Len(df) |->
         [data_id |-> df[i].data_id, predict |-> ps[i], label |-> df[i].label]] :
       ps \in [1..Len(df) ->
                 {[a \in 1..NumLetters |-> a - 1],
                  [a \in 1..NumLetters |-> NumLetters - a]}]}

\* C7: evaluation_dist returns minus the MAP@25 of the deduplicated frame: a
\* value in [-1, 0], 0 exactly when no row's label is among its ranked
\* options, and strictly lower than the value returned for any frame of
\* strictly lower MAP@25.
C7_NegatedScore ==
    pc = "eval" =>
        /\ \A r \in Ranks :
             ev_pc[r] = "done" =>
                LET df == ev_df[r]
                IN  /\ ev_ret[r] = RNeg(Quality(df))
                    /\ RLeq(RNeg(ROne), ev_ret[r])
                    /\ RLeq(ev_ret[r], RZero)
                    /\ (ev_ret[r] = RZero
                          <=> \A a \in 1..Len(df) :
                                 df[a].label \notin SeqToSet(df[a].predict))
        /\ \A scored \in {<<ev_df[r], ev_ret[r], Quality(ev_df[r])>> :
                            r \in {q \in Ranks : ev_pc[q] = "done"}} :
             \A other \in OtherFrames(scored[1]) :
                RLess(Quality(other), scored[3])
                   => RLess(scored[2], score_frame(other))

\* a frame of three rows, one label ranked first, one ranked last and one
\* label that is the sentinel: the value returned is -(1 + 1/25 + 0)/3
C7_Witness ==
    /\ pc = "eval"
    /\ ev_world = 2
    /\ ev_pc[0] = "done"
    /\ Len(ev_df[0]) = 3
    /\ ev_ret[0] = <<-26, 75>>
    /\ \E a \in 1..3 : ev_df[0][a].label = Sentinel

(***************************************************************************)
(* The letter tokens at which the training step and the evaluator read the *)
(* logits of the last real token.                                          *)
(***************************************************************************)
\* tokenizer.encode(c, add_special_tokens=False)[0]
encode_first(c) == tokenizer(<<c>>)[1]

\* a slip that starts the letters at B
label_index_from_second ==
    SubSeq([i \in 1..Len(label_name) |-> encode_first(label_name[i])],
           2, NumLetters + 1)

\* lines 640-643 and 531-534: the token ids of the first 25 letters
label_index ==
    Take([i \in 1..Len(label_name) |-> encode_first(label_name[i])],
         NumLetters)

\* logits[:, label_index] for one row of vocabulary logits
letter_logits(row) == [i \in 1..Len(label_index) |-> row[label_index[i] + 1]]

\* the place in input_ids of the letter of option idx (0-based): behind the
\* prompt and the header, four tokens per option
LetterPlace(idx) == Len(ex_data.prompt) + 1 + 4 * idx + 1

\* vocabulary logits that single out one token
OneHot(n, at) == [i \in 1..n |-> IF i = at THEN 1 ELSE 0]

\* C12: in every example built, option idx is rendered as the idx-th letter
\* of A..Z a..z followed by "." and its text, the letters of the options
\* differ from each other and are among A..Y, and the logit subset read at
\* label_index has at its index idx the logit of the letter of option idx.
C12_LettersInOrder ==
    (pc = "example_done" /\ ex_out.raised = None) =>
        LET shown == ex_out.input_texts
            ids == ex_out.input_ids
        IN  /\ Len(shown) <= NumLetters
            /\ \A idx \in 0..(Len(shown) - 1) :
                 /\ ids[LetterPlace(idx)] = token_id[label_name[idx + 1]]
                 /\ ids[LetterPlace(idx) + 1] = token_id["."]
                 /\ ids[LetterPlace(idx) + 2] = token_id[shown[idx + 1]]
                 /\ label_name[idx + 1] \in
                      {"A", "B", "C", "D", "E", "F", "G", "H", "I", "J", "K",
                       "L", "M", "N", "O", "P", "Q", "R", "S", "T", "U", "V",
                       "W", "X", "Y"}
                 /\ letter_logits(OneHot(Len(Vocabulary),
                                         ids[LetterPlace(idx)] + 1))
                      = OneHot(NumLetters, idx + 1)
            /\ \A a, b \in 0..(Len(shown) - 1) :
                 a # b => ids[LetterPlace(a)] # ids[LetterPlace(b)]
            /\ Len(ids) = Len(ex_data.prompt) + 1 + 4 * Len(shown) + 2

\* a training example of 25 options whose true answer is the last one,
\* rendered with the letter Y
C12_Witness ==
    /\ Trained
    /\ ex_out.raised = None
    /\ Len(ex_out.input_texts) = NumLetters
    /\ ex_out.label = NumLetters - 1
    /\ ex_out.input_ids[LetterPlace(ex_out.label)] = token_id["Y"]

(***************************************************************************)
(* Lines 571-578 on their own: the ranking of gathered letter logits, over *)
(* rows in which letters tie.                                              *)
(***************************************************************************)
MaxRankRows == 2    \* gathered records

\* rows of 25 letter logits: rising, falling, falling with the first two
\* letters level, and rising with the last three letters level
RankRows ==
    {[i \in 1..NumLetters |-> i],
     [i \in 1..NumLetters |-> NumLetters - i],
     [i \in 1..NumLetters |-> IF i = 1 THEN NumLetters - 2 ELSE NumLetters - i],
     [i \in 1..NumLetters |-> Min(i, NumLetters - 2)]}

rankInit ==
    /\ pc = "rank"
    /\ \E n \in 1..MaxRankRows :
         \E rows \in [1..n -> RankRows] :
            rk_in = <<[i \in 1..n |->
                        [data_id |-> i, label |-> 0, logits |-> rows[i]]]>>
    /\ rk_out = <<>>
    /\ mkIdle /\ exIdle /\ btIdle /\ evIdle /\ svIdle /\ trIdle /\ dsIdle
    /\ gpIdle

\* lines 571-578
Rank ==
    /\ pc = "rank"
    /\ pc' = "ranked"
    /\ rk_out' \in frames_of(rk_in)
    /\ UNCHANGED <<rk_in, notRk>>

SpecRank == rankInit /\ [][Rank]_vars

\* C11: every row of the frame lists each of the option indices 0..24 once,
\* and no option comes before one of strictly higher logit.
C11_DescendingPermutation ==
    pc = "ranked" =>
        /\ Len(rk_out) = Len(cat(rk_in))
        /\ \A i \in 1..Len(rk_out) :
             LET predict == rk_out[i].predict
                 score == cat(rk_in)[i].logits
             IN  /\ Len(predict) = NumLetters
                 /\ \A o \in 0..(NumLetters - 1) :
                      Cardinality({a \in 1..NumLetters : predict[a] = o}) = 1
                 /\ \A a, b \in 1..NumLetters :
                      a < b => score[predict[a] + 1] >= score[predict[b] + 1]

\* a frame of two rows, one with two level letters ranked against their
\* index order, the other with strictly rising logits
C11_Witness ==
    /\ pc = "ranked"
    /\ Len(rk_out) = 2
    /\ rk_in[1][1].logits[1] = rk_in[1][1].logits[2]
    /\ rk_out[1].predict[1] = 1
    /\ rk_out[1].predict[2] = 0
    /\ rk_in[1][2].logits[1] < rk_in[1][2].logits[2]
    /\ rk_out[2].predict[1] = NumLetters - 1

(***************************************************************************)
(* save_model.  Names are sequences of characters, so that "lora" in k is  *)
(* the substring test it is; the disk is a function from paths to          *)
(* contents.                                                               *)
(***************************************************************************)
\* sub in s, for strings
contains(sub, s) ==
    \E i \in 1..(Len(s) - Len(sub) + 1) : SubSeq(s, i, i + Len(sub) - 1) = sub

LoraKey == <<"l", "o", "r", "a">>
ScoreKey == <<"s", "c", "o", "r", "e">>

WEIGHTS_NAME == "adapter.bin"
TokenizerFile == "tokenizer.json"

\* os.path.join(args.output_dir, sub_fold), then a file name
path_of(output_dir, sub_fold, name) == <<output_dir, sub_fold, name>>

\* the disk with content written to path, over what was there
written(files, path, content) ==
    [q \in (DOMAIN files) \cup {path} |->
        IF q = path THEN content ELSE files[q]]

\* a slip that tests the two names together
final_d_of_both(save_dict) ==
    [k \in {n \in DOMAIN save_dict : contains(LoraKey, n) /\ contains(ScoreKey, n)}
        |-> save_dict[k]]

\* lines 751-754: the entries whose name holds "lora" or "score"
final_d_of(save_dict) ==
    [k \in {n \in DOMAIN save_dict : contains(LoraKey, n) \/ contains(ScoreKey, n)}
        |-> save_dict[k]]

\* the disk after save_model(args, model, tokenizer, sub_fold)
save_model(files, args, save_dict, sub_fold) ==
    IF sub_fold = None THEN files
    ELSE LET with_tokenizer ==
                 written(files, path_of(args.output_dir, sub_fold, TokenizerFile),
                         "tokenizer")
         IN  IF args.global_rank = 0
             THEN written(with_tokenizer,
                          path_of(args.output_dir, sub_fold, WEIGHTS_NAME),
                          final_d_of(save_dict))
             ELSE with_tokenizer

MaxParams == 3      \* entries of the state dict
MaxRank == 1        \* global ranks 0..MaxRank

\* parameter names: with "lora", with "score", with both, and near misses
ParamNames ==
    {<<"q", ".", "l", "o", "r", "a", "_", "A">>,
     <<"s", "c", "o", "r", "e">>,
     <<"s", "c", "o", "r", "e", ".", "l", "o", "r", "a">>,
     <<"l", "o", "r", "_", "a">>,
     <<"L", "o", "R", "A">>,
     <<"s", "c", "o", "r">>,
     <<"q", ".", "w">>}

ParamValues == {1, 2}

SubFolds == {None, "best_val_loss_model", "epoch_0_model"}

\* the disk before the call: empty, or with the files of an earlier save
DisksBefore ==
    {<<>>,
     written(written(<<>>, path_of("out", "best_val_loss_model", TokenizerFile),
                     "tokenizer"),
             path_of("out", "best_val_loss_model", WEIGHTS_NAME), <<>>)}

saveInit ==
    /\ pc = "save_call"
    /\ \E rank \in 0..MaxRank :
         sv_args = [output_dir |-> "out", global_rank |-> rank]
    /\ \E names \in {N \in SUBSET ParamNames : Cardinality(N) <= MaxParams} :
         sv_model \in [names -> ParamValues]
    /\ sv_sub_fold \in SubFolds
    /\ sv_files \in DisksBefore
    /\ mkIdle /\ exIdle /\ btIdle /\ evIdle /\ newIdle

\* the call save_model(args, model, tokenizer, sub_fold)
SaveModel ==
    /\ pc = "save_call"
    /\ sv_files' = save_model(sv_files, sv_args, sv_model, sv_sub_fold)
    /\ pc' = "save_done"
    /\ UNCHANGED <<sv_args, sv_model, sv_sub_fold, notSv>>

SpecSave == saveInit /\ [][SaveModel]_vars

\* C8: the dictionary save_model writes holds exactly the entries of the
\* state dict whose name contains "lora" or "score", with their values; it
\* is written (by rank 0, when sub_fold is given) as adapter.bin in the
\* directory output_dir/sub_fold, where the tokenizer files are written too,
\* and nothing is written anywhere else.
C8_AdapterOnly ==
    [][SaveModel =>
        LET dir_file(name) == <<sv_args.output_dir, sv_sub_fold, name>>
            weights == dir_file(WEIGHTS_NAME)
            changed == {q \in DOMAIN sv_files' :
                           q \notin DOMAIN sv_files \/ sv_files'[q] # sv_files[q]}
        IN  /\ DOMAIN sv_files \subseteq DOMAIN sv_files'
            /\ changed \subseteq {weights, dir_file(TokenizerFile)}
            /\ sv_sub_fold = None => sv_files' = sv_files
            /\ sv_sub_fold # None =>
                 /\ dir_file(TokenizerFile) \in DOMAIN sv_files'
                 /\ sv_args.global_rank # 0 => weights \notin changed
                 /\ sv_args.global_rank = 0 =>
                      /\ weights \in DOMAIN sv_files'
                      /\ \A k \in DOMAIN sv_model :
                           (contains(LoraKey, k) \/ contains(ScoreKey, k))
                              <=> k \in DOMAIN sv_files'[weights]
                      /\ \A k \in DOMAIN sv_files'[weights] :
                           /\ k \in DOMAIN sv_model
                           /\ sv_files'[weights][k] = sv_model[k]]_vars

\* rank 0 has saved a state dict with a "lora" entry, a "score" entry and an
\* entry with neither, over the files of an earlier save
C8_Witness ==
    /\ pc = "save_done"
    /\ sv_args.global_rank = 0
    /\ sv_sub_fold = "best_val_loss_model"
    /\ Cardinality(DOMAIN sv_model) = 3
    /\ <<"q", ".", "w">> \in DOMAIN sv_model
    /\ <<"s", "c", "o", "r", "e">> \in DOMAIN sv_model
    /\ Cardinality(DOMAIN sv_files[<<"out", "best_val_loss_model", WEIGHTS_NAME>>]) = 2
    /\ <<"out", "best_val_loss_model", TokenizerFile>> \in DOMAIN sv_files

(***************************************************************************)
(* The training loop of main, lines 633-731, on one worker.  The loss of   *)
(* a step is what the model gives for its batch, and the value of an       *)
(* evaluation is what evaluation_dist returns: a number of [-1, 0].        *)
(***************************************************************************)
LogEvery == 10      \* if global_step % 10 == 0

\* best_val_loss = 1000.
InitialBest == <<1000, 1>>

BestFold == "best_val_loss_model"

EpochFolds ==
    <<"epoch_0_model", "epoch_1_model", "epoch_2_model", "epoch_3_model">>

\* f"epoch_{epoch}_model"
epoch_fold(epoch) == EpochFolds[epoch + 1]

\* model.state_dict() after the optimizer step of global step g: the adapter
\* has moved g + 1 times, the base weight never
state_dict_at(g) ==
    [k \in {LoraKey, <<"q", ".", "w">>} |-> IF k = LoraKey THEN g + 1 ELSE 0]

\* if global_step % 10 == 0
log_due(global_step) == global_step % LogEvery = 0

\* curr_loss {loss.item()} of the progress line
logged_loss(loss, total_loss) == loss

\* if (global_step + 1) % args.gradient_accumulation_steps == 0
reset_due(args, global_step) ==
    (global_step + 1) % args.gradient_accumulation_steps = 0

\* a slip that counts from the step index instead of the batches processed
periodic_due_by_index(args, global_step) ==
    /\ args.save_batch_steps # 0
    /\ global_step % args.save_batch_steps = 0

\* if args.save_batch_steps and (global_step + 1) % args.save_batch_steps == 0
periodic_due(args, global_step) ==
    /\ args.save_batch_steps # 0
    /\ (global_step + 1) % args.save_batch_steps = 0

\* a slip that takes a tie for an improvement
improves_or_ties(loss_mean_e, best_val_loss) == RLeq(loss_mean_e, best_val_loss)

\* if loss_mean_e < best_val_loss
improves(loss_mean_e, best_val_loss) == RLess(loss_mean_e, best_val_loss)

\* if args.save_per_epoch == 1
per_epoch_due(args) == args.save_per_epoch = 1

\* a slip that takes every epoch for the last
is_last_epoch_always(args, epoch) == epoch <= args.num_train_epochs - 1

\* if epoch == args.num_train_epochs - 1
is_last_epoch(args, epoch) == epoch = args.num_train_epochs - 1

\* what the loop does that can be seen from outside
LogLine(epoch, global_step, curr_loss) ==
    [kind |-> "log", epoch |-> epoch, global_step |-> global_step,
     what |-> curr_loss]
EvalRun(epoch, global_step, value, where) ==
    [kind |-> where, epoch |-> epoch, global_step |-> global_step,
     what |-> value]
SaveCall(epoch, global_step, sub_fold) ==
    [kind |-> "save", epoch |-> epoch, global_step |-> global_step,
     what |-> sub_fold]

MaxEpochs == 2      \* args.num_train_epochs
MaxBatches == 11    \* len(train_dataloader)
MaxEvery == 4       \* args.save_batch_steps
MaxEvals == 3       \* periodic evaluations of a run
MaxAccum == 2       \* args.gradient_accumulation_steps

\* values evaluation_dist may return
EvalValues == {<<-1, 1>>, <<-1, 2>>, <<0, 1>>}

\* the losses of a run of n steps: level, or rising
LossSchedules(n) == {[g \in 1..n |-> 1], [g \in 1..n |-> g]}

TrainArgs ==
    {[output_dir |-> "out", global_rank |-> 0, num_train_epochs |-> e,
      train_len |-> l, save_batch_steps |-> n, save_per_epoch |-> s,
      gradient_accumulation_steps |-> a] :
        e \in 1..MaxEpochs, l \in 1..MaxBatches, n \in 0..MaxEvery,
        s \in {-1, 1}, a \in 1..MaxAccum}

trainInit ==
    /\ pc = "train_batch"
    /\ tr_args \in {a \in TrainArgs :
                      \/ a.save_batch_steps = 0
                      \/ (a.num_train_epochs * a.train_len)
                             \div a.save_batch_steps <= MaxEvals}
    /\ tr_loss_of \in LossSchedules(tr_args.num_train_epochs * tr_args.train_len)
    /\ tr_epoch = 0
    /\ tr_step = 0
    /\ tr_global_step = -1
    /\ tr_total_loss = 0
    /\ tr_best_val_loss = InitialBest
    /\ tr_no_improve_epoch = 0
    /\ tr_events = <<>>
    /\ tr_files = <<>>
    /\ mkIdle /\ exIdle /\ btIdle /\ evIdle /\ svIdle /\ rkIdle /\ dsIdle
    /\ gpIdle

\* lines 650-715: one pass of the loop over the batches of an epoch
TrainBatch ==
    /\ pc = "train_batch"
    /\ LET g == tr_global_step + 1
           loss == tr_loss_of[g + 1]
           total == tr_total_loss + loss
           logs == IF log_due(g)
                   THEN <<LogLine(tr_epoch, g, logged_loss(loss, total))>>
                   ELSE <<>>
       IN  /\ tr_global_step' = g
           /\ tr_total_loss' = IF reset_due(tr_args, g) THEN 0 ELSE total
           /\ IF periodic_due(tr_args, g)
              THEN \E loss_mean_e \in EvalValues :
                     LET ran == logs \o <<EvalRun(tr_epoch, g, loss_mean_e,
                                                  "eval")>>
                     IN  IF improves(loss_mean_e, tr_best_val_loss)
                         THEN /\ tr_events' = tr_events \o ran
                                     \o <<SaveCall(tr_epoch, g, BestFold)>>
                              /\ tr_files' = save_model(tr_files, tr_args,
                                                 state_dict_at(g), BestFold)
                              /\ tr_best_val_loss' = loss_mean_e
                              /\ tr_no_improve_epoch' = 0
                         ELSE /\ tr_events' = tr_events \o ran
                              /\ tr_no_improve_epoch' = tr_no_improve_epoch + 1
                              /\ UNCHANGED <<tr_files, tr_best_val_loss>>
              ELSE /\ tr_events' = tr_events \o logs
                   /\ UNCHANGED <<tr_files, tr_best_val_loss,
                                  tr_no_improve_epoch>>
    /\ IF tr_step + 1 < tr_args.train_len
       THEN tr_step' = tr_step + 1 /\ pc' = "train_batch"
       ELSE tr_step' = tr_step /\ pc' = "train_epoch_end"
    /\ UNCHANGED <<tr_args, tr_loss_of, tr_epoch, notTr>>

\* lines 721-731: the end of an epoch, and the step of the loop over epochs
EpochEnd ==
    /\ pc = "train_epoch_end"
    /\ LET g == tr_global_step
           fold == epoch_fold(tr_epoch)
           per == IF per_epoch_due(tr_args)
                  THEN <<SaveCall(tr_epoch, g, fold)>> ELSE <<>>
           files == IF per_epoch_due(tr_args)
                    THEN save_model(tr_files, tr_args, state_dict_at(g), fold)
                    ELSE tr_files
       IN  IF is_last_epoch(tr_args, tr_epoch)
           THEN \E loss_mean \in EvalValues :
                  /\ tr_events' = tr_events \o per
                         \o <<EvalRun(tr_epoch, g, loss_mean, "last_eval"),
                              SaveCall(tr_epoch, g, fold)>>
                  /\ tr_files' = save_model(files, tr_args, state_dict_at(g),
                                            fold)
           ELSE /\ tr_events' = tr_events \o per
                /\ tr_files' = files
    /\ IF tr_epoch + 1 < tr_args.num_train_epochs
       THEN tr_epoch' = tr_epoch + 1 /\ tr_step' = 0 /\ pc' = "train_batch"
       ELSE tr_epoch' = tr_epoch /\ tr_step' = tr_step /\ pc' = "train_done"
    /\ UNCHANGED <<tr_args, tr_loss_of, tr_global_step, tr_total_loss,
                   tr_best_val_loss, tr_no_improve_epoch, notTr>>

SpecTrain == trainInit /\ [][TrainBatch \/ EpochEnd]_vars

Training == pc \in {"train_batch", "train_epoch_end", "train_done"}

\* the events of one kind, in order
EventsOf(kind) == SelectSeq(tr_events, LAMBDA e : e.kind = kind)

\* the micro-batches processed so far, counted from the loop's position
Processed ==
    tr_epoch * tr_args.train_len
        + (IF pc = "train_batch" THEN tr_step ELSE tr_args.train_len)

\* the epochs whose end the loop has passed
EpochsEnded ==
    {e \in 0..(tr_args.num_train_epochs - 1) :
        e < tr_epoch \/ pc = "train_done"}

\* C13: the periodic evaluations so far are one after each micro-batch whose
\* count over the whole run is a multiple of N = save_batch_steps, and none
\* when N = 0; the count runs on over the epochs; a finished run of E epochs
\* of L batches has made floor(E * L / N) of them; and with save_per_epoch = 1
\* every epoch e that ended has had save_model called for epoch_<e>_model
\* after its last batch, which left its adapter file on the disk.
C13_PeriodicEvaluation ==
    Training =>
        LET N == tr_args.save_batch_steps
            L == tr_args.train_len
            E == tr_args.num_train_epochs
            evals == EventsOf("eval")
            saves == EventsOf("save")
        IN  /\ tr_global_step + 1 = Processed
            /\ N = 0 => evals = <<>>
            /\ N > 0 =>
                 /\ Len(evals) = Processed \div N
                 /\ \A i \in 1..Len(evals) : evals[i].global_step + 1 = i * N
            /\ (pc = "train_done" /\ N > 0) => Len(evals) = (E * L) \div N
            /\ tr_args.save_per_epoch = 1 =>
                 \A e \in EpochsEnded :
                    /\ \E i \in 1..Len(saves) :
                         /\ saves[i].what = EpochFolds[e + 1]
                         /\ saves[i].epoch = e
                         /\ saves[i].global_step + 1 = (e + 1) * L
                    /\ <<"out", EpochFolds[e + 1], WEIGHTS_NAME>>
                         \in DOMAIN tr_files

\* a finished run of two epochs of three batches with N = 2 and
\* save_per_epoch = 1: three periodic evaluations, the second one after the
\* first batch of the second epoch
C13_Witness ==
    /\ pc = "train_done"
    /\ tr_args.num_train_epochs = 2
    /\ tr_args.train_len = 3
    /\ tr_args.save_batch_steps = 2
    /\ tr_args.save_per_epoch = 1
    /\ Len(EventsOf("eval")) = 3
    /\ EventsOf("eval")[2].epoch = 1
    /\ EventsOf("eval")[2].global_step = 3
    /\ <<"out", "epoch_0_model", WEIGHTS_NAME>> \in DOMAIN tr_files

\* the losses of the global steps lo..hi, added up
RECURSIVE LossSum(_, _)
LossSum(lo, hi) ==
    IF lo > hi THEN 0 ELSE tr_loss_of[lo + 1] + LossSum(lo + 1, hi)

\* C14: the progress lines so far are one for each global step (counted from
\* 0) that is a multiple of 10, the first step among them, and each reports
\* the sum of the losses of the steps after the previous progress line, up to
\* and with its own step.
C14_AccumulatedLossLogged ==
    Training =>
        LET logs == EventsOf("log")
        IN  /\ Len(logs) = IF tr_global_step < 0 THEN 0
                           ELSE tr_global_step \div 10 + 1
            /\ \A i \in 1..Len(logs) :
                 /\ logs[i].global_step = 10 * (i - 1)
                 /\ logs[i].what =
                      LossSum(IF i = 1 THEN 0 ELSE 10 * (i - 2) + 1, 10 * (i - 1))

\* the places in tr_events of the periodic evaluations
EvalPlaces == {j \in 1..Len(tr_events) : tr_events[j].kind = "eval"}

\* the periodic evaluation at place j returned less than every one before it
StrictlyBest(j) ==
    \A k \in EvalPlaces :
        k < j => RLess(tr_events[j].what, tr_events[k].what)

\* save_model was called for best_val_loss_model right after the event at j
SavedBestAt(j) ==
    /\ j < Len(tr_events)
    /\ tr_events[j + 1].kind = "save"
    /\ tr_events[j + 1].what = "best_val_loss_model"

\* what C15 says of one state of the loop
BestBookkeeping ==
    LET improving == {j \in EvalPlaces : StrictlyBest(j)}
        latest == CHOOSE j \in improving : \A k \in improving : k <= j
        best_file == <<"out", "best_val_loss_model", WEIGHTS_NAME>>
    IN  /\ RLeq(tr_best_val_loss, <<1000, 1>>)
        /\ \A j \in EvalPlaces : RLeq(tr_best_val_loss, tr_events[j].what)
        /\ \/ tr_best_val_loss = <<1000, 1>>
           \/ \E j \in EvalPlaces : tr_best_val_loss = tr_events[j].what
        /\ \A j \in EvalPlaces : SavedBestAt(j) <=> StrictlyBest(j)
        /\ \A j \in 1..Len(tr_events) :
             (tr_events[j].kind = "save" /\ tr_events[j].what = "best_val_loss_model")
                => (j - 1) \in EvalPlaces
        /\ IF improving = {}
           THEN /\ tr_no_improve_epoch = 0
                /\ best_file \notin DOMAIN tr_files
           ELSE /\ tr_no_improve_epoch
                     = Cardinality({j \in EvalPlaces : j > latest})
                /\ best_file \in DOMAIN tr_files
                /\ tr_files[best_file][LoraKey]
                     = tr_events[latest].global_step + 1

\* C15: best_val_loss never goes up; it is the least of 1000 and the values
\* the periodic evaluations returned so far; save_model is called for
\* best_val_loss_model at exactly the periodic evaluations whose value is
\* strictly below every earlier one, so that the file on disk is the one of
\* the latest of them; and no_improve_epoch counts the periodic evaluations
\* since that one.
C15_BestValLoss ==
    /\ [](Training => BestBookkeeping)
    /\ [][Training' => RLeq(tr_best_val_loss', tr_best_val_loss)]_vars

\* three periodic evaluations: -1/2, -1/2 again, then -1; the tie left the
\* first file in place and counted as no improvement, the third replaced it
C15_Witness ==
    /\ Training
    /\ Len(EventsOf("eval")) = 3
    /\ EventsOf("eval")[1].what = <<-1, 2>>
    /\ EventsOf("eval")[2].what = <<-1, 2>>
    /\ EventsOf("eval")[3].what = <<-1, 1>>
    /\ Len(SelectSeq(tr_events, LAMBDA e : e.kind = "save" /\ e.what = BestFold)) = 2
    /\ tr_best_val_loss = <<-1, 1>>
    /\ tr_no_improve_epoch = 0

\* the loop is sequential code: a step that can be taken is taken
SpecTrainFair == SpecTrain /\ WF_vars(TrainBatch \/ EpochEnd)

\* the events of the final evaluation and of the save after it are the last
\* two, and they belong to the last epoch
EndsWithFinalEvaluation ==
    LET n == Len(tr_events)
        last == tr_args.num_train_epochs - 1
    IN  /\ n >= 2
        /\ tr_events[n - 1].kind = "last_eval"
        /\ tr_events[n - 1].epoch = last
        /\ tr_events[n].kind = "save"
        /\ tr_events[n].what = EpochFolds[last + 1]
        /\ tr_events[n].epoch = last
        /\ <<"out", EpochFolds[last + 1], WEIGHTS_NAME>> \in DOMAIN tr_files

BestFiles(files) ==
    {q \in DOMAIN files : q[2] = "best_val_loss_model"}

\* C16: the loop reaches its end; when it has, it has run num_train_epochs
\* epochs of all their batches, with one final evaluation, made at the end
\* of the last epoch and followed by the save of epoch_<last>_model; no
\* final evaluation is made before; and the step that makes it leaves
\* best_val_loss and the files of best_val_loss_model as they were.
C16_FinalEvaluation ==
    /\ <>(pc = "train_done")
    /\ [](pc = "train_done" =>
            /\ tr_epoch = tr_args.num_train_epochs - 1
            /\ tr_global_step + 1
                 = tr_args.num_train_epochs * tr_args.train_len
            /\ Len(EventsOf("last_eval")) = 1
            /\ EndsWithFinalEvaluation)
    /\ []((Training /\ pc # "train_done") => EventsOf("last_eval") = <<>>)
    /\ [][(Training /\ Len(EventsOf("last_eval"))' > Len(EventsOf("last_eval")))
            => /\ tr_best_val_loss' = tr_best_val_loss
               /\ tr_no_improve_epoch' = tr_no_improve_epoch
               /\ BestFiles(tr_files') = BestFiles(tr_files)
               /\ \A q \in BestFiles(tr_files) : tr_files'[q] = tr_files[q]]_vars

\* a finished run of two epochs without periodic evaluations or per-epoch
\* saves: the only events are the progress line of the first step, the final
\* evaluation, which returned less than the 1000 best_val_loss still holds,
\* and the save of epoch_1_model
C16_Witness ==
    /\ pc = "train_done"
    /\ tr_args.num_train_epochs = 2
    /\ tr_args.save_batch_steps = 0
    /\ tr_args.save_per_epoch # 1
    /\ Len(tr_events) = 3
    /\ tr_events[2].kind = "last_eval"
    /\ tr_events[2].what = <<-1, 1>>
    /\ tr_best_val_loss = <<1000, 1>>
    /\ DOMAIN tr_files = {<<"out", "epoch_1_model", WEIGHTS_NAME>>,
                          <<"out", "epoch_1_model", TokenizerFile>>}

(***************************************************************************)
(* The training loop on every worker, lines 644-731, with evaluation_dist  *)
(* and its three all_gather calls.  A worker that has entered a collective *)
(* stays in it until every worker has entered the same one.                *)
(***************************************************************************)
MaxDistWorld == 2   \* workers

\* sizes of the evaluation set: fewer rows than workers, and as many
DistRowCounts == {1, 2}

\* the tensors handed to the three all_gather calls, in the order of the calls
CollectiveOps == <<"outputs", "labels", "data_ids">>

\* rows of 25 letter logits: rising, and falling with the first two level
DistLogitRows ==
    {[i \in 1..NumLetters |-> i],
     [i \in 1..NumLetters |-> IF i = 1 THEN NumLetters - 2 ELSE NumLetters - i]}

\* np.argsort is a function of its row: the order it gives level entries is
\* not specified, but calls on equal rows agree; how names that order
np_argsort_as(v, how) ==
    CHOOSE p \in argsort(v) :
        \A a, b \in 1..Len(p) :
            (a < b /\ v[p[a] + 1] = v[p[b] + 1])
                => IF how = "low_first" THEN p[a] < p[b] ELSE p[a] > p[b]

\* np.argsort(-row) of every row the model may give, worked out once
ranked_rows ==
    [how \in {"low_first", "high_first"} |->
        [row \in DistLogitRows |-> np_argsort_as(negated(row), how)]]

\* lines 571-578
frame_of(gathered, how) ==
    LET records == cat(gathered)
    IN  [i \in 1..Len(records) |->
            [data_id |-> records[i].data_id,
             predict |-> ranked_rows[how][records[i].logits],
             label |-> records[i].label]]

\* posts with what rank handed in
handed_in(posts, rank, post) ==
    [q \in (DOMAIN posts) \cup {rank} |-> IF q = rank THEN post ELSE posts[q]]

\* the board after rank has entered its k-th collective
entered(board, k, rank, post) ==
    IF k > Len(board) THEN Append(board, handed_in(<<>>, rank, post))
    ELSE [board EXCEPT ![k] = handed_in(@, rank, post)]

\* a slip that puts the worker's own tensor first
all_gather_own_first(posts, world, rank) ==
    [q \in 1..world |-> posts[(rank + q - 1) % world].tensor]

\* dist.all_gather(gather_list, tensor): the tensors of all ranks, by rank
all_gather(posts, world, rank) == [q \in 1..world |-> posts[q - 1].tensor]

\* the tensor a worker hands to the i-th all_gather of an evaluation
tensor_of(local, i) ==
    [j \in 1..Len(local) |->
        IF i = 1 THEN local[j].logits
        ELSE IF i = 2 THEN local[j].label ELSE local[j].data_id]

\* torch.cat of the three gather lists, row by row
records_of(got) ==
    [q \in 1..Len(got[1]) |->
        [j \in 1..Len(got[1][q]) |->
            [data_id |-> got[3][q][j], label |-> got[2][q][j],
             logits |-> got[1][q][j]]]]

\* the loop over the batches goes on, or the epoch ends
next_batch(st, args) ==
    IF st.step + 1 < args.train_len
    THEN [st EXCEPT !.step = @ + 1, !.pc = "batch"]
    ELSE [st EXCEPT !.pc = "epoch_end"]

\* the loop over the epochs goes on, or ends
next_epoch(st, args) ==
    IF st.epoch + 1 < args.num_train_epochs
    THEN [st EXCEPT !.epoch = @ + 1, !.step = 0, !.pc = "batch"]
    ELSE [st EXCEPT !.pc = "done"]

\* args as worker rank has them
args_of(rank) == [output_dir |-> ds_args.output_dir, global_rank |-> rank]

\* the paths a save_model call of worker rank writes
paths_written(rank, sub_fold) ==
    {<<rank, q>> : q \in DOMAIN save_model(<<>>, args_of(rank),
                                           state_dict_at(0), sub_fold)}

DistRanks == 0..(ds_world - 1)

\* runs of one or two batches in all: one epoch of one or two batches with
\* save_batch_steps 0, 1 or 2, and two epochs of one batch with 0 or 2
DistArgs ==
    {[output_dir |-> "out", num_train_epochs |-> eln[1], train_len |-> eln[2],
      save_batch_steps |-> eln[3], save_per_epoch |-> s,
      gradient_accumulation_steps |-> 1] :
        eln \in {<<1, 1, 0>>, <<1, 1, 1>>, <<1, 1, 2>>,
                 <<1, 2, 0>>, <<1, 2, 1>>, <<1, 2, 2>>,
                 <<2, 1, 0>>, <<2, 1, 2>>},
        s \in {-1, 1}}

distInit ==
    /\ pc = "workers"
    /\ ds_world \in 1..MaxDistWorld
    /\ ds_args \in DistArgs
    /\ \E n \in DistRowCounts :
         /\ ds_dataset = [i \in 1..n |-> [data_id |-> i, label |-> 0]]
         /\ ds_order \in SamplerOrders(n)
    /\ ds_sort \in {"low_first", "high_first"}
    /\ ds_w = [r \in DistRanks |->
                 [pc |-> "batch", caller |-> None, epoch |-> 0, step |-> 0,
                  global_step |-> -1, total_loss |-> 0,
                  best_val_loss |-> InitialBest, no_improve_epoch |-> 0,
                  seq |-> 0, local |-> <<>>, got |-> <<>>, evals |-> <<>>]]
    /\ ds_board = <<>>
    /\ ds_files = <<>>
    /\ ds_writers = {}
    /\ mkIdle /\ exIdle /\ btIdle /\ evIdle /\ svIdle /\ rkIdle /\ trIdle
    /\ gpIdle

\* every worker has handed its tensor to the collective the worker is in
Complete(st) == DOMAIN ds_board[st.seq] = DistRanks

\* lines 527-567 on worker w: the records of the worker's shard, with
\* which the worker enters the first all_gather
eval_entries(st, w) ==
    LET shard == shard_of(ds_order, ds_world, w)
    IN  {[st EXCEPT
            !.local = [j \in 1..Len(shard) |->
                          [data_id |-> ds_dataset[shard[j] + 1].data_id,
                           label |-> ds_dataset[shard[j] + 1].label,
                           logits |-> logits[j]]],
            !.got = <<>>,
            !.seq = @ + 1,
            !.pc = "in_gather"] :
          logits \in [1..Len(shard) -> DistLogitRows]}

\* lines 650-695 on worker w: a batch; when a periodic evaluation is due,
\* on into evaluation_dist up to its first all_gather
DistBatch(w) ==
    /\ pc = "workers"
    /\ ds_w[w].pc = "batch"
    /\ LET st == ds_w[w]
           g == st.global_step + 1
           total == st.total_loss + 1
           st1 == [st EXCEPT !.global_step = g,
                             !.total_loss = IF reset_due(ds_args, g)
                                            THEN 0 ELSE total]
       IN  IF periodic_due(ds_args, g)
           THEN \E st2 \in eval_entries([st1 EXCEPT !.caller = "periodic"], w) :
                  /\ ds_w' = [ds_w EXCEPT ![w] = st2]
                  /\ ds_board' = entered(ds_board, st2.seq, w,
                                     [op |-> CollectiveOps[1],
                                      tensor |-> tensor_of(st2.local, 1)])
           ELSE /\ ds_w' = [ds_w EXCEPT ![w] = next_batch(st1, ds_args)]
                /\ UNCHANGED ds_board
    /\ UNCHANGED <<pc, ds_args, ds_world, ds_dataset, ds_order, ds_sort,
                   ds_files, ds_writers, notDs>>

\* lines 567-569 on worker w: an all_gather returns, and the worker enters
\* the next one, with its labels or with its data_ids
PassGather(w) ==
    /\ pc = "workers"
    /\ ds_w[w].pc = "in_gather"
    /\ Len(ds_w[w].got) < 2
    /\ Complete(ds_w[w])
    /\ LET st == ds_w[w]
           k == st.seq + 1
       IN  \E got \in {Append(st.got, all_gather(ds_board[st.seq], ds_world, w))} :
              /\ ds_board' = entered(ds_board, k, w,
                                 [op |-> CollectiveOps[Len(got) + 1],
                                  tensor |-> tensor_of(st.local, Len(got) + 1)])
              /\ ds_w' = [ds_w EXCEPT ![w].seq = k, ![w].got = got]
    /\ UNCHANGED <<pc, ds_args, ds_world, ds_dataset, ds_order, ds_sort,
                   ds_files, ds_writers, notDs>>

\* lines 569-588 on worker w, and what the caller does with the value:
\* lines 696-715 after a periodic evaluation, lines 726-731 after the final
DistEvalTail(w) ==
    /\ pc = "workers"
    /\ ds_w[w].pc = "in_gather"
    /\ Len(ds_w[w].got) = 2
    /\ Complete(ds_w[w])
    /\ LET st == ds_w[w]
           g == st.global_step
           fold == IF st.caller = "periodic" THEN BestFold
                   ELSE epoch_fold(st.epoch)
       IN  \E gathered \in {records_of(Append(st.got,
                               all_gather(ds_board[st.seq], ds_world, w)))} :
           \E loss_mean_e \in {score_frame(drop_duplicates(
                                   frame_of(gathered, ds_sort)))} :
           \E saves \in {IF st.caller = "periodic"
                         THEN improves(loss_mean_e, st.best_val_loss)
                         ELSE TRUE} :
              LET ran == [global_step |-> g, caller |-> st.caller,
                          gathered |-> gathered, value |-> loss_mean_e,
                          saved |-> saves]
                  st1 == [st EXCEPT !.evals = Append(@, ran), !.got = <<>>,
                                    !.local = <<>>, !.caller = None]
              IN  /\ IF saves
                     THEN /\ ds_files' = save_model(ds_files, args_of(w),
                                                    state_dict_at(g), fold)
                          /\ ds_writers' = ds_writers \cup paths_written(w, fold)
                     ELSE UNCHANGED <<ds_files, ds_writers>>
                  /\ ds_w' = [ds_w EXCEPT ![w] =
                         IF st.caller = "periodic"
                         THEN IF saves
                              THEN next_batch([st1 EXCEPT
                                       !.best_val_loss = loss_mean_e,
                                       !.no_improve_epoch = 0], ds_args)
                              ELSE next_batch([st1 EXCEPT
                                       !.no_improve_epoch = @ + 1], ds_args)
                         ELSE next_epoch(st1, ds_args)]
    /\ UNCHANGED <<pc, ds_args, ds_world, ds_dataset, ds_order, ds_sort,
                   ds_board, notDs>>

\* lines 721-725 on worker w: the end of an epoch; in the last one, on into
\* evaluation_dist up to its first all_gather
DistEpochEnd(w) ==
    /\ pc = "workers"
    /\ ds_w[w].pc = "epoch_end"
    /\ LET st == ds_w[w]
           fold == epoch_fold(st.epoch)
       IN  /\ IF per_epoch_due(ds_args)
              THEN /\ ds_files' = save_model(ds_files, args_of(w),
                                      state_dict_at(st.global_step), fold)
                   /\ ds_writers' = ds_writers \cup paths_written(w, fold)
              ELSE UNCHANGED <<ds_files, ds_writers>>
           /\ IF is_last_epoch(ds_args, st.epoch)
              THEN \E st2 \in eval_entries([st EXCEPT !.caller = "last"], w) :
                     /\ ds_w' = [ds_w EXCEPT ![w] = st2]
                     /\ ds_board' = entered(ds_board, st2.seq, w,
                                        [op |-> CollectiveOps[1],
                                         tensor |-> tensor_of(st2.local, 1)])
              ELSE /\ ds_w' = [ds_w EXCEPT ![w] = next_epoch(st, ds_args)]
                   /\ UNCHANGED ds_board
    /\ UNCHANGED <<pc, ds_args, ds_world, ds_dataset, ds_order, ds_sort,
                   notDs>>

DistNext ==
    \E w \in DistRanks :
        \/ DistBatch(w)
        \/ PassGather(w)
        \/ DistEvalTail(w)
        \/ DistEpochEnd(w)

SpecDist == distInit /\ [][DistNext]_vars

\* what C17 says of one state of the workers
Lockstep ==
    /\ \A k \in 1..Len(ds_board) :
         \A r \in DOMAIN ds_board[k] :
            /\ ds_board[k][r].op = <<"outputs", "labels", "data_ids">>[((k - 1) % 3) + 1]
            /\ \A q \in DOMAIN ds_board[k] :
                 Len(ds_board[k][q].tensor) = Len(ds_board[k][r].tensor)
    /\ \A w, v \in DistRanks :
         /\ \A i \in 1..Min(Len(ds_w[w].evals), Len(ds_w[v].evals)) :
              LET a == ds_w[w].evals[i]
                  b == ds_w[v].evals[i]
              IN  /\ a.global_step = b.global_step
                  /\ a.caller = b.caller
                  /\ a.gathered = b.gathered
                  /\ a.value = b.value
                  /\ a.saved = b.saved
         /\ Len(ds_w[w].evals) = Len(ds_w[v].evals) =>
              /\ ds_w[w].best_val_loss = ds_w[v].best_val_loss
              /\ ds_w[w].no_improve_epoch = ds_w[v].no_improve_epoch
              /\ (ds_w[w].pc = "in_gather" /\ ds_w[v].pc = "in_gather") =>
                   /\ ds_w[w].global_step = ds_w[v].global_step
                   /\ ds_w[w].caller = ds_w[v].caller
    /\ \A wq \in ds_writers : wq[2][3] = WEIGHTS_NAME => wq[1] = 0
    /\ (\A w \in DistRanks :
            \/ ds_w[w].pc = "done"
            \/ ds_w[w].pc = "in_gather"
                 /\ DOMAIN ds_board[ds_w[w].seq] # 0..(ds_world - 1))
         => \A w \in DistRanks : ds_w[w].pc = "done"

AllDone == pc = "workers" /\ \A w \in DistRanks : ds_w[w].pc = "done"

\* C17: the k-th collective a worker enters is the same all_gather on every
\* worker, with tensors of one length; the evaluations of any two workers
\* agree one by one in the global step they were made at, the records
\* gathered, the value and the branch taken, and workers that have made as
\* many evaluations hold the same best_val_loss; only rank 0 writes an
\* adapter file; and the workers never all stand still, some of them in a
\* collective that not every worker has entered, the others at the end of
\* their loop.
C17_Lockstep == pc = "workers" => Lockstep

\* two workers at the end of a run with two periodic evaluations, the first
\* saved and the second not, over an evaluation set of one row that the
\* sampler gives to both workers and the model scores differently on them
C17_Witness ==
    /\ AllDone
    /\ ds_world = 2
    /\ Len(ds_dataset) = 1
    /\ Len(ds_w[1].evals) = 3
    /\ ds_w[1].evals[1].saved
    /\ ~ds_w[1].evals[2].saved
    /\ \E i \in 1..3 :
         ds_w[0].evals[i].gathered[1][1].logits
            # ds_w[0].evals[i].gathered[2][1].logits
    /\ <<1, <<"out", "best_val_loss_model", TokenizerFile>>>> \in ds_writers
    /\ <<0, <<"out", "best_val_loss_model", WEIGHTS_NAME>>>> \in ds_writers

(***************************************************************************)
(* get_optimizer_grouped_parameters.  Parameter names are sequences of     *)
(* characters; a parameter is its name and its requires_grad flag.         *)
(***************************************************************************)
BiasName ==
    <<"b", "i", "a", "s">>
LayerNormName ==
    <<"L", "a", "y", "e", "r", "N", "o", "r", "m", ".", "w", "e", "i", "g",
      "h", "t">>
LoraRightName ==
    <<"l", "o", "r", "a", "_", "r", "i", "g", "h", "t", "_", "w", "e", "i",
      "g", "h", "t">>
LoraLeftName ==
    <<"l", "o", "r", "a", "_", "l", "e", "f", "t", "_", "w", "e", "i", "g",
      "h", "t">>

no_decay_name_list == <<BiasName, LayerNormName>>
lora_name_list == <<LoraRightName, LoraLeftName>>

\* any(nd in n for nd in name_list)
any_in(name_list, n) ==
    \E i \in 1..Len(name_list) : contains(name_list[i], n)

\* a slip that forgets to leave the LoRA names to their own group
in_decay_group_with_lora(p) ==
    ~any_in(no_decay_name_list, p.name) /\ p.requires_grad

\* the tests of the three list comprehensions
in_decay_group(p) ==
    /\ ~any_in(no_decay_name_list, p.name)
    /\ p.requires_grad
    /\ ~any_in(lora_name_list, p.name)
in_lora_group(p) ==
    /\ ~any_in(no_decay_name_list, p.name)
    /\ p.requires_grad
    /\ any_in(lora_name_list, p.name)
in_no_decay_group(p) ==
    any_in(no_decay_name_list, p.name) /\ p.requires_grad

\* the names of the parameters a test lets through, in the model's order
params_of(kept) ==
    [i \in 1..Len(kept) |-> kept[i].name]

get_optimizer_grouped_parameters(named_parameters, weight_decay, lora_lr) ==
    LET optimizer_grouped_parameters ==
            <<[params |-> params_of(SelectSeq(named_parameters, in_decay_group)),
               weight_decay |-> weight_decay],
              [params |-> params_of(SelectSeq(named_parameters, in_lora_group)),
               weight_decay |-> weight_decay, lr |-> lora_lr],
              [params |-> params_of(SelectSeq(named_parameters, in_no_decay_group)),
               weight_decay |-> 0]>>
    IN  IF optimizer_grouped_parameters[2].params = <<>>
        THEN <<optimizer_grouped_parameters[1], optimizer_grouped_parameters[3]>>
        ELSE optimizer_grouped_parameters

MaxGroupParams == 3     \* parameters of the model

\* parameter names: plain, with a no-decay name, with a LoRA name, with
\* both, and near misses of each
PlainName ==
    <<"q", ".", "w", "e", "i", "g", "h", "t">>
QBiasName ==
    <<"q", ".", "b", "i", "a", "s">>
NormName ==
    <<"l", "n", ".", "L", "a", "y", "e", "r", "N", "o", "r", "m", ".", "w",
      "e", "i", "g", "h", "t">>
QLoraRightName ==
    <<"q", ".", "l", "o", "r", "a", "_", "r", "i", "g", "h", "t", "_", "w",
      "e", "i", "g", "h", "t">>
QLoraLeftName ==
    <<"q", ".", "l", "o", "r", "a", "_", "l", "e", "f", "t", "_", "w", "e",
      "i", "g", "h", "t">>
LoraBiasName ==
    <<"q", ".", "l", "o", "r", "a", "_", "r", "i", "g", "h", "t", "_", "w",
      "e", "i", "g", "h", "t", ".", "b", "i", "a", "s">>
PeftLoraName ==
    <<"q", ".", "l", "o", "r", "a", "_", "A", ".", "w", "e", "i", "g", "h",
      "t">>
LowerNormName ==
    <<"l", "n", ".", "l", "a", "y", "e", "r", "n", "o", "r", "m", ".", "w",
      "e", "i", "g", "h", "t">>

GroupNames ==
    <<PlainName, QBiasName, NormName, QLoraRightName, QLoraLeftName,
      LoraBiasName, PeftLoraName, LowerNormName>>

\* models of up to MaxGroupParams parameters, in the order of GroupNames
GroupModels ==
    UNION {{[i \in 1..Len(names) |->
                [name |-> names[i], requires_grad |-> rg[i]]] :
              rg \in [1..Len(names) -> BOOLEAN]} :
           names \in {SelectSeq(GroupNames, LAMBDA n : n \in S) :
                        S \in {T \in SUBSET SeqToSet(GroupNames) :
                                 Cardinality(T) <= MaxGroupParams}}}

\* args.weight_decay, in thousandths
WeightDecays == {0, 100}

\* args.lora_learning_rate, in ten-thousandths
LoraRates == {5}

groupsInit ==
    /\ pc = "groups_call"
    /\ \E named \in GroupModels, wd \in WeightDecays, lr \in LoraRates :
         gp_in = [named_parameters |-> named, weight_decay |-> wd,
                  lora_lr |-> lr]
    /\ gp_out = <<>>
    /\ mkIdle /\ exIdle /\ btIdle /\ evIdle /\ svIdle /\ rkIdle /\ trIdle
    /\ dsIdle

\* the call of lines 596-597
GetGroups ==
    /\ pc = "groups_call"
    /\ gp_out' = get_optimizer_grouped_parameters(gp_in.named_parameters,
                     gp_in.weight_decay, gp_in.lora_lr)
    /\ pc' = "groups_done"
    /\ UNCHANGED <<gp_in, notGp>>

SpecGroups == groupsInit /\ [][GetGroups]_vars

\* the name holds "bias" or "LayerNorm.weight"
NoDecayNamed(n) ==
    \/ contains(<<"b", "i", "a", "s">>, n)
    \/ contains(<<"L", "a", "y", "e", "r", "N", "o", "r", "m", ".",
                  "w", "e", "i", "g", "h", "t">>, n)

\* the name holds "lora_right_weight" or "lora_left_weight"
LoraNamed(n) ==
    \/ contains(<<"l", "o", "r", "a", "_", "r", "i", "g", "h", "t", "_",
                  "w", "e", "i", "g", "h", "t">>, n)
    \/ contains(<<"l", "o", "r", "a", "_", "l", "e", "f", "t", "_",
                  "w", "e", "i", "g", "h", "t">>, n)

\* how often the groups returned hold the parameter named n
TimesGrouped(n) ==
    Cardinality({gi \in (1..Len(gp_out)) \X (1..(MaxGroupParams + 1)) :
                    /\ gi[2] <= Len(gp_out[gi[1]].params)
                    /\ gp_out[gi[1]].params[gi[2]] = n})

\* C18: the groups returned hold every parameter that requires grad once and
\* no other; those of them whose name holds a no-decay name are in the last
\* group, whose weight decay is 0; and the group of the LoRA names, the one
\* with its own learning rate, is there exactly when a parameter belongs to
\* it, the other two always.
C18_GroupsPartition ==
    pc = "groups_done" =>
        LET named == gp_in.named_parameters
            lora == {i \in 1..Len(named) :
                        /\ named[i].requires_grad
                        /\ LoraNamed(named[i].name)
                        /\ ~NoDecayNamed(named[i].name)}
            last == gp_out[Len(gp_out)]
        IN  /\ \A i \in 1..Len(named) :
                 TimesGrouped(named[i].name)
                    = IF named[i].requires_grad THEN 1 ELSE 0
            /\ \A g \in 1..Len(gp_out) : \A i \in 1..Len(gp_out[g].params) :
                 \E j \in 1..Len(named) : named[j].name = gp_out[g].params[i]
            /\ last.weight_decay = 0
            /\ \A i \in 1..Len(named) :
                 (named[i].requires_grad /\ NoDecayNamed(named[i].name))
                    => named[i].name \in SeqToSet(last.params)
            /\ \A g \in 1..(Len(gp_out) - 1) :
                 /\ gp_out[g].weight_decay = gp_in.weight_decay
                 /\ \A i \in 1..Len(gp_out[g].params) :
                      ~NoDecayNamed(gp_out[g].params[i])
            /\ Len(gp_out) = IF lora = {} THEN 2 ELSE 3
            /\ lora # {} =>
                 /\ SeqToSet(gp_out[2].params) = {named[i].name : i \in lora}
                 /\ gp_out[2].lr = gp_in.lora_lr
            /\ \A g \in 1..Len(gp_out) :
                 \A i \in 1..Len(gp_out[g].params) :
                    LoraNamed(gp_out[g].params[i])
                       => (g = Len(gp_out) \/ (g = 2 /\ lora # {}))

\* a model of a frozen LoRA parameter, a trainable parameter with a LoRA
\* name and a no-decay name, and a trainable plain one: the LoRA group is
\* empty and dropped, and two groups are returned
C18_Witness ==
    /\ pc = "groups_done"
    /\ Len(gp_in.named_parameters) = 3
    /\ \E i \in 1..3 :
         /\ gp_in.named_parameters[i].name = QLoraRightName
         /\ ~gp_in.named_parameters[i].requires_grad
    /\ Len(gp_out) = 2
    /\ gp_out[1].params = <<PlainName>>
    /\ gp_out[2].params = <<LoraBiasName>>
    /\ gp_in.weight_decay # 0

====
